---- MODULE Spec2Model ----
(***************************************************************************)
(* A model of the path router of src/src/worker.ts: route-table            *)
(* construction (getRoutes, validateRoutes), route resolution              *)
(* (computeRedirectTarget and its helpers) and the request handler         *)
(* (handleRequest), split at its one suspension point, the outbound fetch, *)
(* with the Cache-Control policy and the HTML transform that follow it.    *)
(*                                                                         *)
(* The handler's actions are run under three sets of inputs: Spec draws    *)
(* every path over a two-letter alphabet and every small route table;      *)
(* CacheSpec draws asset paths, upstream headers and CACHE_IMAGES values;  *)
(* HtmlSpec draws documents.  ConcSpec interleaves several invocations of  *)
(* the handler in one isolate, with the body of an HTML response streamed  *)
(* element by element; EntrySpec adds the entry points that call the       *)
(* handler (the default export and the handler of createRouter).           *)
(*                                                                         *)
(* Strings are sequences of one-character strings, so that startsWith,     *)
(* endsWith, slice, includes and replace are computed as the code computes *)
(* them.  URL values are records [ok, origin, pathname, search]; `new URL` *)
(* is modelled by what the URL parser does on the strings that occur here  *)
(* (https URLs, a non-special scheme, strings without a scheme).           *)
(***************************************************************************)
EXTENDS Integers, Sequences, FiniteSets, TLC

\* ------------------------------------------------------------------ bounds

\* longest request path (characters, the leading "/" included)
MaxPathLen == 4

\* most entries of one ROUTES object
MaxRoutes == 2

\* ---------------------------------------------------------- string helpers

StartsWith(s, p) ==
    /\ Len(s) >= Len(p)
    /\ SubSeq(s, 1, Len(p)) = p

EndsWith(s, p) ==
    /\ Len(s) >= Len(p)
    /\ SubSeq(s, Len(s) - Len(p) + 1, Len(s)) = p

\* s.slice(n)
Slice(s, n) == SubSeq(s, n + 1, Len(s))

\* s.slice(0, -n)
SliceEnd(s, n) == SubSeq(s, 1, Len(s) - n)

\* the positions at which p occurs in s (1-based)
Occurrences(s, p) ==
    { i \in 1..(Len(s) - Len(p) + 1) : SubSeq(s, i, i + Len(p) - 1) = p }

\* s.includes(p)
Includes(s, p) == Occurrences(s, p) # {}

Min(S) == CHOOSE x \in S : \A y \in S : x <= y

\* s.replace(p, r) with a string pattern: the first occurrence only
ReplaceFirst(s, p, r) ==
    IF Occurrences(s, p) = {} THEN s
    ELSE LET i == Min(Occurrences(s, p))
         IN  SubSeq(s, 1, i - 1) \o r \o SubSeq(s, i + Len(p), Len(s))

\* the length of the longest prefix of s that holds no character of stop
RunLen(s, stop) ==
    LET hits == { i \in 1..Len(s) : s[i] \in stop }
    IN  IF hits = {} THEN Len(s) ELSE Min(hits) - 1

\* the number of leading "/" of s
LeadingSlashes(s) ==
    LET others == { i \in 1..Len(s) : s[i] # "/" }
    IN  IF others = {} THEN Len(s) ELSE Min(others) - 1

\* ------------------------------------------------------------- characters

Uppers == <<"A", "B", "C", "D", "E", "F", "G", "H", "I", "J", "K", "L", "M",
           "N", "O", "P", "Q", "R", "S", "T", "U", "V", "W", "X", "Y", "Z">>

Lowers == <<"a", "b", "c", "d", "e", "f", "g", "h", "i", "j", "k", "l", "m",
           "n", "o", "p", "q", "r", "s", "t", "u", "v", "w", "x", "y", "z">>

UpperChars == { Uppers[i] : i \in 1..Len(Uppers) }

LowerChar(c) ==
    IF c \in UpperChars
        THEN Lowers[CHOOSE i \in 1..Len(Uppers) : Uppers[i] = c]
        ELSE c

\* s.toLowerCase()
ToLowerCase(s) == [i \in 1..Len(s) |-> LowerChar(s[i])]

Digits == {"0", "1", "2", "3", "4", "5", "6", "7", "8", "9"}

\* [0-9a-f] under the flag i, on the lower-cased subject
HexChars == Digits \cup {"a", "b", "c", "d", "e", "f"}

\* [0-9a-zA-Z] under the flag i, on the lower-cased subject
AlnumChars == Digits \cup { Lowers[i] : i \in 1..Len(Lowers) }

\* ------------------------------------------------------------ string values

ProxyPrefix == <<"p", "r", "o", "x", "y", ":">>
LegacyPrefix == <<"3", "0", "2", ":">>
HttpsScheme == <<"h", "t", "t", "p", "s", ":", "/", "/">>
AppScheme == <<"a", "p", "p", ":">>
Wildcard == <<"/", "*">>
NullOrigin == <<"n", "u", "l", "l">>
LoopMarker == "route-subdomain-to-path"

\* ---------------------------------------------------------------- new URL

BadURL == [ok |-> FALSE, origin |-> <<>>, pathname |-> <<>>, search |-> <<>>]

\* the part of s from its first "?" on, "" when that is the "?" alone
SearchOf(s) ==
    LET n == RunLen(s, {"?"})
    IN  IF n >= Len(s) - 1 THEN <<>> ELSE Slice(s, n)

\* new URL(s): an https URL with a host (the scheme and the host are
\* lower-cased by the parser); a URL of the non-special scheme "app:"
\* (opaque origin, serialised "null"); anything else has no scheme and
\* fails to parse
NewURL(s) ==
    IF /\ Len(s) >= Len(HttpsScheme)
       /\ ToLowerCase(SubSeq(s, 1, Len(HttpsScheme))) = HttpsScheme THEN
        LET rest == Slice(s, Len(HttpsScheme))
            skip == LeadingSlashes(rest)
            auth == Slice(rest, skip)
            hostLen == RunLen(auth, {"/", "?"})
            after == Slice(auth, hostLen)
            pathLen == RunLen(after, {"?"})
        IN  IF hostLen = 0 THEN BadURL
            ELSE [ok |-> TRUE,
                  origin |-> HttpsScheme
                               \o ToLowerCase(SubSeq(auth, 1, hostLen)),
                  pathname |-> IF pathLen = 0 THEN <<"/">>
                               ELSE SubSeq(after, 1, pathLen),
                  search |-> SearchOf(after)]
    ELSE IF StartsWith(s, AppScheme) THEN
        LET rest == Slice(s, Len(AppScheme))
        IN  [ok |-> TRUE,
             origin |-> NullOrigin,
             pathname |-> SubSeq(rest, 1, RunLen(rest, {"?"})),
             search |-> SearchOf(rest)]
    ELSE BadURL

\* new URL(input, base) for an input that begins with "/" or is a bare
\* path: the base must parse; against an https base an input "//host/p"
\* is scheme-relative (further slashes are skipped, an empty host fails),
\* and an input "/p" replaces the base's path
NewURLWithBase(input, base) ==
    LET b == NewURL(base)
    IN  IF ~b.ok THEN BadURL
        ELSE IF StartsWith(input, <<"/", "/">>) THEN
            LET auth == Slice(input, LeadingSlashes(input))
                hostLen == RunLen(auth, {"/", "?"})
                after == Slice(auth, hostLen)
                pathLen == RunLen(after, {"?"})
            IN  IF hostLen = 0 THEN BadURL
                ELSE [ok |-> TRUE,
                      origin |-> HttpsScheme \o SubSeq(auth, 1, hostLen),
                      pathname |-> IF pathLen = 0 THEN <<"/">>
                                   ELSE SubSeq(after, 1, pathLen),
                      search |-> SearchOf(after)]
        ELSE [ok |-> TRUE,
              origin |-> b.origin,
              pathname |-> SubSeq(input, 1, RunLen(input, {"?"})),
              search |-> SearchOf(input)]

\* url.toString() of an https URL
Href(u) == u.origin \o u.pathname \o u.search

\* ------------------------------------------------------------ route table

\* validateRoutes throws on the first entry whose key does not start with
\* "/" or whose target, marker prefix and first "/*" removed, is no
\* absolute URL; TRUE when it returns normally
EntryValid(path, target) ==
    LET targetUrl == IF StartsWith(target, ProxyPrefix)
                         THEN Slice(target, 6)
                     ELSE IF StartsWith(target, LegacyPrefix)
                         THEN Slice(target, 4)
                     ELSE target
    IN  /\ StartsWith(path, <<"/">>)
        /\ IF Includes(targetUrl, Wildcard)
               THEN NewURL(ReplaceFirst(targetUrl, Wildcard, <<>>)).ok
               ELSE NewURL(targetUrl).ok

validateRoutes(routes) ==
    \A i \in 1..Len(routes) : EntryValid(routes[i].path, routes[i].target)

getRoutesSkipInvalid(e) ==
    IF ~e.ROUTES.parses THEN <<>>
    ELSE SelectSeq(e.ROUTES.entries, LAMBDA x : EntryValid(x.path, x.target))

\* getRoutes: the parsed ROUTES object, or {} when JSON.parse or
\* validateRoutes throws.  The entries are in the order of Object.entries,
\* which for the keys of a table that validates (all begin with "/", so
\* none is an integer index) is the order of insertion.
getRoutes(e) ==
    IF ~e.ROUTES.parses THEN <<>>
    ELSE IF ~validateRoutes(e.ROUTES.entries) THEN <<>>
    ELSE e.ROUTES.entries

\* ------------------------------------------------------------ cache policy

\* a header of a request or response: its value, or absent
NoHeader == [has |-> FALSE, value |-> <<>>]
Header(v) == [has |-> TRUE, value |-> v]

\* the least length of the run of hash characters in /[.-][0-9a-f]{8,}.../
MinHashLen == 8

JsExt == <<".", "j", "s">>
CssExt == <<".", "c", "s", "s">>
HtmlExt == <<".", "h", "t", "m", "l">>

\* /[.-]CLASS{8,}\.(js|css)$/i .test(pathname), CLASS given in lower case
HashPatternTest(pathname, class) ==
    LET s == ToLowerCase(pathname)
    IN  \E ext \in {JsExt, CssExt} :
            /\ EndsWith(s, ext)
            /\ LET stem == SliceEnd(s, Len(ext))
               IN  \E i \in 1..Len(stem) :
                       /\ stem[i] \in {".", "-"}
                       /\ Len(stem) - i >= MinHashLen
                       /\ \A j \in (i + 1)..Len(stem) : stem[j] \in class

hasContentHashNever(pathname) == FALSE

\* hashPatterns.some(pattern => pattern.test(pathname))
hasContentHash(pathname) ==
    \/ HashPatternTest(pathname, HexChars)
    \/ HashPatternTest(pathname, AlnumChars)

imageExtensions == {
    <<".", "j", "p", "g">>,
    <<".", "j", "p", "e", "g">>,
    <<".", "p", "n", "g">>,
    <<".", "g", "i", "f">>,
    <<".", "w", "e", "b", "p">>,
    <<".", "s", "v", "g">>,
    <<".", "i", "c", "o">>,
    <<".", "b", "m", "p">>,
    <<".", "a", "v", "i", "f">>,
    <<".", "t", "i", "f", "f">>,
    <<".", "t", "i", "f">>
}

isImageFile(pathname) ==
    LET lowercasePath == ToLowerCase(pathname)
    IN  \E ext \in imageExtensions : EndsWith(lowercasePath, ext)

\* env.CACHE_IMAGES is a record [kind, flag, items]: the variable absent,
\* the empty string, text that JSON.parse rejects, the text of a boolean
\* (flag), of an array of strings (items), or of any other JSON value
getCacheConfig(e, routePath) ==
    LET c == e.CACHE_IMAGES
        normalizedRoutePath == IF EndsWith(routePath, Wildcard)
                                   THEN routePath
                                   ELSE routePath \o Wildcard
    IN  IF c.kind \in {"absent", "empty"} THEN FALSE
        ELSE IF c.kind = "invalid" THEN FALSE
        ELSE IF c.kind = "array"
            THEN \E i \in 1..Len(c.items) :
                     \/ c.items[i] = normalizedRoutePath
                     \/ c.items[i] = routePath
        ELSE IF c.kind = "boolean" THEN c.flag
        ELSE FALSE

MaxAge0 == <<"m", "a", "x", "-", "a", "g", "e", "=", "0">>
NoCacheDirective == <<"n", "o", "-", "c", "a", "c", "h", "e">>
NoStoreDirective == <<"n", "o", "-", "s", "t", "o", "r", "e">>
MustRevalidate == <<"m", "u", "s", "t", "-", "r", "e", "v", "a", "l", "i", "d", "a", "t", "e">>

\* the values the policy sets
YearAge == <<"m", "a", "x", "-", "a", "g", "e", "=",
      "3", "1", "5", "3", "6", "0", "0", "0">>
Immutable == <<"p", "u", "b", "l", "i", "c", ",", " ">> \o YearAge
                 \o <<",", " ", "i", "m", "m", "u", "t", "a", "b", "l", "e">>
WeekLong == <<"p", "u", "b", "l", "i", "c", ",", " ",
      "m", "a", "x", "-", "a", "g", "e", "=", "6", "0", "4", "8", "0", "0">>
YearLong == <<"p", "u", "b", "l", "i", "c", ",", " ">> \o YearAge

TextHtml == <<"t", "e", "x", "t", "/", "h", "t", "m", "l">>
Xhtml == <<"a", "p", "p", "l", "i", "c", "a", "t", "i", "o", "n",
      "/", "x", "h", "t", "m", "l", "+", "x", "m", "l">>

\* upstreamCacheControl && (upstreamCacheControl.includes(...) || ...)
hasRestrictiveCache(upstreamCacheControl) ==
    /\ upstreamCacheControl.has
    /\ upstreamCacheControl.value # <<>>
    /\ \/ Includes(upstreamCacheControl.value, MaxAge0)
       \/ Includes(upstreamCacheControl.value, NoCacheDirective)
       \/ Includes(upstreamCacheControl.value, NoStoreDirective)
       \/ Includes(upstreamCacheControl.value, MustRevalidate)

isHtmlByTypeOnly(contentTypeHeader, pathname) ==
    LET contentType == IF contentTypeHeader.has
                           THEN contentTypeHeader.value ELSE <<>>
    IN  \/ Includes(ToLowerCase(contentType), TextHtml)
        \/ Includes(ToLowerCase(contentType), Xhtml)

\* isHtml of handleRequest
isHtml(contentTypeHeader, pathname) ==
    LET contentType == IF contentTypeHeader.has
                           THEN contentTypeHeader.value ELSE <<>>
    IN  \/ Includes(ToLowerCase(contentType), TextHtml)
        \/ Includes(ToLowerCase(contentType), Xhtml)
        \/ EndsWith(ToLowerCase(pathname), HtmlExt)

newHeadersOverrideAlways(upstream, pathname, html, cacheImages) ==
    IF hasContentHash(pathname) /\ upstream.has
        THEN Header(Immutable)
    ELSE IF isImageFile(pathname) /\ cacheImages /\ upstream.has
        THEN Header(WeekLong)
    ELSE IF ~upstream.has
        THEN IF html THEN Header(NoCacheDirective) ELSE Header(YearLong)
    ELSE upstream

\* the Cache-Control header of newHeaders after "Apply caching logic"
newHeaders(upstream, pathname, html, cacheImages) ==
    IF hasContentHash(pathname) /\ hasRestrictiveCache(upstream)
        THEN Header(Immutable)
    ELSE IF isImageFile(pathname) /\ cacheImages /\ hasRestrictiveCache(upstream)
        THEN Header(WeekLong)
    ELSE IF ~upstream.has
        THEN IF html THEN Header(NoCacheDirective) ELSE Header(YearLong)
    ELSE upstream

\* --------------------------------------------------------- route resolution

matchesRoutePathNoBoundary(pathname, routePath) ==
    LET pathPattern == IF EndsWith(routePath, Wildcard)
                           THEN SliceEnd(routePath, 2) ELSE routePath
    IN  IF EndsWith(routePath, Wildcard)
            THEN StartsWith(pathname, pathPattern)
            ELSE pathname = routePath

matchesRoutePath(pathname, routePath) ==
    LET pathPattern == IF EndsWith(routePath, Wildcard)
                           THEN SliceEnd(routePath, 2) ELSE routePath
    IN  IF EndsWith(routePath, Wildcard)
            THEN \/ pathname = pathPattern
                 \/ pathname = pathPattern \o <<"/">>
                 \/ StartsWith(pathname, pathPattern \o <<"/">>)
            ELSE pathname = routePath

extractRemainingPath(pathname, routePath) ==
    LET pathPattern == IF EndsWith(routePath, Wildcard)
                           THEN SliceEnd(routePath, 2) ELSE routePath
    IN  IF pathname = pathPattern THEN <<"/">>
        ELSE IF pathname = pathPattern \o <<"/">> THEN <<"/">>
        ELSE Slice(pathname, Len(pathPattern))

parseTargetUrlLegacyProxy(target) ==
    LET isProxy == StartsWith(target, ProxyPrefix)
                      \/ StartsWith(target, LegacyPrefix)
    IN  [url |-> IF StartsWith(target, ProxyPrefix) THEN Slice(target, 6)
                 ELSE IF StartsWith(target, LegacyPrefix) THEN Slice(target, 4)
                 ELSE target,
         isProxy |-> isProxy]

parseTargetUrl(target) ==
    LET isProxy == StartsWith(target, ProxyPrefix)
    IN  [url |-> IF isProxy THEN Slice(target, 6)
                 ELSE IF StartsWith(target, LegacyPrefix) THEN Slice(target, 4)
                 ELSE target,
         isProxy |-> isProxy]

buildTargetUrlAppending(targetPattern, remainingPath) ==
    LET targetURL == NewURL(ReplaceFirst(targetPattern, Wildcard, <<>>))
    IN  IF ~targetURL.ok THEN BadURL
        ELSE NewURLWithBase(IF targetURL.pathname = <<"/">>
                                THEN remainingPath
                                ELSE targetURL.pathname \o remainingPath,
                            targetURL.origin)

\* buildTargetUrl; a result with ok = FALSE stands for the TypeError that
\* the URL constructor throws
buildTargetUrl(targetPattern, remainingPath) ==
    IF Includes(targetPattern, Wildcard) THEN
        LET baseTargetUrl == ReplaceFirst(targetPattern, Wildcard, <<>>)
            targetURL == NewURL(baseTargetUrl)
            finalPath == IF targetURL.pathname = <<"/">>
                             THEN remainingPath
                             ELSE targetURL.pathname \o remainingPath
        IN  IF ~targetURL.ok THEN BadURL
            ELSE NewURLWithBase(finalPath, targetURL.origin)
    ELSE NewURL(targetPattern)

\* Object.entries(routes).find(...): the index of the entry found, 0 for
\* undefined
FindLastRoute(routes, pathname) ==
    LET hits == { i \in 1..Len(routes) :
                    matchesRoutePath(pathname, routes[i].path) }
    IN  IF hits = {} THEN 0 ELSE CHOOSE i \in hits : \A j \in hits : j <= i

FindRoute(routes, pathname) ==
    LET hits == { i \in 1..Len(routes) :
                    matchesRoutePath(pathname, routes[i].path) }
    IN  IF hits = {} THEN 0 ELSE Min(hits)

\* targetURL.search = url.search
KeepTargetSearch(targetURL, search) ==
    IF search = <<>> THEN targetURL ELSE [targetURL EXCEPT !.search = search]

SetSearch(targetURL, search) == [targetURL EXCEPT !.search = search]

NoMatch == [outcome |-> "null", targetUrl |-> BadURL, type |-> "none"]
Threw == [outcome |-> "throw", targetUrl |-> BadURL, type |-> "none"]

\* computeRedirectTarget: null, a RouteMatch, or the URL constructor's throw
computeRedirectTarget(url, routes) ==
    LET i == FindRoute(routes, url.pathname)
    IN  IF i = 0 THEN NoMatch
        ELSE LET routePath == routes[i].path
                 parsed == parseTargetUrl(routes[i].target)
                 remainingPath == extractRemainingPath(url.pathname, routePath)
                 targetURL == buildTargetUrl(parsed.url, remainingPath)
             IN  IF ~targetURL.ok THEN Threw
                 ELSE [outcome |-> "match",
                       targetUrl |-> SetSearch(targetURL, url.search),
                       type |-> IF parsed.isProxy THEN "proxy" ELSE "redirect"]

\* ------------------------------------------------------------ HTML rewrite

\* A document is a record [head, children]: with a head element, children
\* are the elements of the head in document order; without one, they are
\* the elements of the document.  An element is a record [tag, href, src,
\* content]; an attribute that is absent or empty is <<>> (getAttribute
\* gives null or "", and `if (href)` skips both).
Element(tag, href, src, content) ==
    [tag |-> tag, href |-> href, src |-> src, content |-> content]

\* AttributeRewriter.rewriteAbsoluteUrl
rewriteAbsoluteUrl(url, sourcePath, sourceUrl, targetUrl) ==
    IF StartsWith(url, targetUrl.origin)
        THEN sourceUrl.origin \o sourcePath \o Slice(url, Len(targetUrl.origin))
        ELSE url

\* AttributeRewriter.rewriteRelativeUrl
rewriteRelativeUrl(url, sourcePath) ==
    IF StartsWith(url, <<"/">>) THEN sourcePath \o url ELSE url

\* the href and the src branch of AttributeRewriter.element
RewriteLink(value, sourcePath, sourceUrl, targetUrl) ==
    IF value = <<>> THEN value
    ELSE IF NewURL(value).ok
        THEN rewriteAbsoluteUrl(value, sourcePath, sourceUrl, targetUrl)
        ELSE rewriteRelativeUrl(value, sourcePath)

\* the content branch of AttributeRewriter.element
RewriteContent(tag, value, sourcePath, sourceUrl, targetUrl) ==
    IF tag = "meta" /\ value # <<>> /\ NewURL(value).ok
        THEN rewriteAbsoluteUrl(value, sourcePath, sourceUrl, targetUrl)
        ELSE value

\* AttributeRewriter.element
AttributeRewriter(el, sourcePath, sourceUrl, targetUrl) ==
    Element(el.tag,
            RewriteLink(el.href, sourcePath, sourceUrl, targetUrl),
            RewriteLink(el.src, sourcePath, sourceUrl, targetUrl),
            RewriteContent(el.tag, el.content, sourcePath, sourceUrl, targetUrl))

\* the route path without its wildcard, for the HTML transform
transformPath(routePath) ==
    IF EndsWith(routePath, Wildcard) THEN SliceEnd(routePath, 2) ELSE routePath

\* the tag that BaseTagInjector.element prepends
BaseTag(basePath) ==
    Element("base",
            basePath \o (IF EndsWith(basePath, <<"/">>) THEN <<>> ELSE <<"/">>),
            <<>>, <<>>)

\* rewriter.transform(response): every element of the origin's document is
\* visited by AttributeRewriter, and the head gets the base tag prepended
\* (content that a handler inserts is not visited)
Transform(doc, basePath, sourceUrl, targetUrl) ==
    LET visited == [i \in 1..Len(doc.children) |->
                      AttributeRewriter(doc.children[i], basePath,
                                        sourceUrl, targetUrl)]
    IN  [head |-> doc.head,
         children |-> IF doc.head THEN <<BaseTag(basePath)>> \o visited
                      ELSE visited]

\* ------------------------------------------------------------------ inputs

PathChars == {"/", "a"}

\* all strings over PathChars of length 0..n
RECURSIVE Strings(_)
Strings(n) ==
    IF n = 0 THEN {<<>>}
    ELSE LET shorter == Strings(n - 1)
         IN  shorter \cup { Append(s, c) : s \in { t \in shorter : Len(t) = n - 1 },
                                         c \in PathChars }

\* url.pathname of a request: it starts with "/"
Paths == { <<"/">> \o s : s \in Strings(MaxPathLen - 1) }

\* url.search of a request
Searches == { <<>>, <<"?", "q">> }

Methods == {"GET", "POST"}

\* what else a request carries: a GET without a body, a Host header or an
\* Accept header, and a POST that has all three
Carried ==
    { [method |-> "GET", body |-> "none", host |-> "absent", accept |-> "absent"],
      [method |-> "POST", body |-> "payload", host |-> "s", accept |-> "text/html"] }

\* the inbound X-Routing-Loop-Detection header: absent, the marker, other
LoopHeaders == {"absent", LoopMarker, "other"}

SourceOrigin == HttpsScheme \o <<"s">>

\* the requests over the paths of P
RequestsOver(P) ==
    { [origin |-> SourceOrigin, pathname |-> p, search |-> q,
       method |-> c.method, body |-> c.body, host |-> c.host,
       accept |-> c.accept, loop |-> l] :
        p \in P, q \in Searches, c \in Carried, l \in LoopHeaders }

Requests == RequestsOver(Paths)

Entry(path, target) == [path |-> path, target |-> target]

\* the entries a ROUTES object is made of
Entries == {
    \* "/a/*": "proxy:https://t/*"
    Entry(<<"/", "a">> \o Wildcard,
          ProxyPrefix \o HttpsScheme \o <<"t">> \o Wildcard),
    \* "/a/*": "proxy:https://t/b/*"
    Entry(<<"/", "a">> \o Wildcard,
          ProxyPrefix \o HttpsScheme \o <<"t", "/", "b">> \o Wildcard),
    \* "/a/*": "https://r/*"
    Entry(<<"/", "a">> \o Wildcard, HttpsScheme \o <<"r">> \o Wildcard),
    \* "/a/*": "302:https://r/*", the same with the legacy prefix
    Entry(<<"/", "a">> \o Wildcard,
          LegacyPrefix \o HttpsScheme \o <<"r">> \o Wildcard),
    \* "/a/*": "proxy:https://t/b"
    Entry(<<"/", "a">> \o Wildcard,
          ProxyPrefix \o HttpsScheme \o <<"t", "/", "b">>),
    \* "/a": "https://r/b?k"
    Entry(<<"/", "a">>, HttpsScheme \o <<"r", "/", "b", "?", "k">>),
    \* "/*": "proxy:https://u/*"
    Entry(Wildcard, ProxyPrefix \o HttpsScheme \o <<"u">> \o Wildcard),
    \* "/aa": "proxy:t/*", a target that is no absolute URL
    Entry(<<"/", "a", "a">>, ProxyPrefix \o <<"t">> \o Wildcard),
    \* "/aa/*": "proxy:app:/*", a target of a non-special scheme
    Entry(<<"/", "a", "a">> \o Wildcard, ProxyPrefix \o AppScheme \o Wildcard),
    \* "a": "proxy:https://t/*", a key that does not start with "/"
    Entry(<<"a">>, ProxyPrefix \o HttpsScheme \o <<"t">> \o Wildcard)
}

\* the entry lists of length n: an object has each key once
RECURSIVE Tables(_)
Tables(n) ==
    IF n = 0 THEN {<<>>}
    ELSE UNION { { Append(t, e) :
                     e \in { x \in Entries :
                               \A i \in 1..Len(t) : t[i].path # x.path } } :
                 t \in Tables(n - 1) }

\* env.ROUTES: text that JSON.parse rejects, or the text of an object
Configs ==
    { [parses |-> FALSE, entries |-> <<>>] }
    \cup { [parses |-> TRUE, entries |-> t] :
             t \in UNION { Tables(n) : n \in 0..MaxRoutes } }

CacheImages(kind, flag, items) ==
    [kind |-> kind, flag |-> flag, items |-> items]

\* CACHE_IMAGES is optional
CacheImagesAbsent == CacheImages("absent", FALSE, <<>>)

Envs == [ROUTES : Configs, CACHE_IMAGES : {CacheImagesAbsent}]

EmptyDocument == [head |-> FALSE, children |-> <<>>]

\* the status lines of the origin's answers
StatusLines ==
    { [status |-> 200, statusText |-> "OK"],
      [status |-> 404, statusText |-> "Not Found"] }

\* what the origin answers to the outbound request
OriginResponses ==
    { [status |-> l.status, statusText |-> l.statusText,
       cacheControl |-> NoHeader, contentType |-> NoHeader,
       body |-> EmptyDocument] : l \in StatusLines }

\* ---------------------------------------- inputs of the cache policy

\* longest run of hash characters in a file name
MaxHashLen == 8

\* the entries of the tables behind which assets and documents are proxied
ProxyEntries == {
    \* "/a/*": "proxy:https://t/*"
    Entry(<<"/", "a">> \o Wildcard,
          ProxyPrefix \o HttpsScheme \o <<"t">> \o Wildcard),
    \* "/aa/*": "proxy:https://w/*"
    Entry(<<"/", "a", "a">> \o Wildcard,
          ProxyPrefix \o HttpsScheme \o <<"w">> \o Wildcard),
    \* "/*": "proxy:https://u/*"
    Entry(Wildcard, ProxyPrefix \o HttpsScheme \o <<"u">> \o Wildcard)
}

\* the entry lists of length n over the entries E, each key once
RECURSIVE TablesOf(_, _)
TablesOf(E, n) ==
    IF n = 0 THEN {<<>>}
    ELSE UNION { { Append(t, e) :
                     e \in { x \in E :
                               \A i \in 1..Len(t) : t[i].path # x.path } } :
                 t \in TablesOf(E, n - 1) }

ProxyConfigs ==
    { [parses |-> TRUE, entries |-> t] :
        t \in UNION { TablesOf(ProxyEntries, n) : n \in 1..MaxRoutes } }

\* env.CACHE_IMAGES: absent, "", text that is no JSON, "true", "false",
\* "1", '["/a/*"]', '["/aa/*"]'
CacheImagesValues == {
    CacheImagesAbsent,
    CacheImages("empty", FALSE, <<>>),
    CacheImages("invalid", FALSE, <<>>),
    CacheImages("boolean", TRUE, <<>>),
    CacheImages("boolean", FALSE, <<>>),
    CacheImages("other", FALSE, <<>>),
    CacheImages("array", FALSE, << <<"/", "a">> \o Wildcard >>),
    CacheImages("array", FALSE, << <<"/", "a", "a">> \o Wildcard >>)
}

CacheEnvs == [ROUTES : ProxyConfigs, CACHE_IMAGES : CacheImagesValues]

\* n hash characters, taken from sample in turn
HashRun(n, sample) == [i \in 1..n |-> sample[((i - 1) % Len(sample)) + 1]]

HexSample == <<"3", "5", "3", "f", "0", "7", "6", "1">>
AlnumSample == <<"a", "1", "b", "2", "c", "3", "d", "z">>

\* file names: with a run of MinHashLen - 1 .. MaxHashLen hash characters
\* before ".js" or ".css", in upper case, without a hash, images, a name
\* that ends in "png" without the dot, a page, a name without extension
FileNames ==
    { <<"i", "-">> \o HashRun(n, HexSample) \o JsExt :
        n \in (MinHashLen - 1)..MaxHashLen }
    \cup { <<"m", ".">> \o HashRun(n, AlnumSample) \o CssExt :
             n \in (MinHashLen - 1)..MaxHashLen }
    \cup { <<"I", "-", "3", "5", "3", "F", "0", "7", "6", "1", ".", "J", "S">>,
           <<"s", ".", "j", "s">>,
           <<"i", ".", "p", "n", "g">>,
           <<"i", ".", "P", "N", "G">>,
           <<"i", "p", "n", "g">>,
           <<"p", ".", "h", "t", "m", "l">>,
           <<"p">> }

AssetPaths ==
    { <<"/", "a", "/">> \o f : f \in FileNames }
    \cup { <<"/", "a", "a", "/", "i", ".", "p", "n", "g">> }

\* a GET for the path p, without a query and without a loop header
PlainRequest(p) ==
    [origin |-> SourceOrigin, pathname |-> p, search |-> <<>>,
     method |-> "GET", body |-> "none", host |-> "absent",
     accept |-> "absent", loop |-> "absent"]

CacheRequests == { PlainRequest(p) : p \in AssetPaths }

\* the origin's Cache-Control: absent, empty, restrictive (two ways),
\* permissive
UpstreamCacheControls == {
    NoHeader,
    Header(<<>>),
    Header(<<"p", "u", "b", "l", "i", "c", ",", " ",
           "m", "a", "x", "-", "a", "g", "e", "=", "0", ",", " ",
           "m", "u", "s", "t", "-", "r", "e", "v", "a", "l", "i", "d", "a", "t", "e">>),
    Header(NoStoreDirective),
    Header(<<"p", "u", "b", "l", "i", "c", ",", " ",
           "m", "a", "x", "-", "a", "g", "e", "=", "3", "6", "0", "0">>)
}

\* the origin's Content-Type: absent, HTML (in mixed case), XHTML, other
MixedCaseHtml ==
    <<"T", "e", "x", "t", "/", "H", "T", "M", "L", ";", " ",
      "c", "h", "a", "r", "s", "e", "t", "=", "u", "t", "f", "-", "8">>

ImagePng == <<"i", "m", "a", "g", "e", "/", "p", "n", "g">>

ContentTypes == { NoHeader, Header(MixedCaseHtml), Header(Xhtml), Header(ImagePng) }

CacheResponses ==
    [status : {200}, statusText : {"OK"},
     cacheControl : UpstreamCacheControls,
     contentType : ContentTypes, body : {EmptyDocument}]

\* ---------------------------------------- inputs of the HTML rewrite

\* most elements in a document
MaxElements == 1

\* absolute URLs: of the origins of the proxy targets (one with the scheme
\* in upper case), of another origin, and of a host whose name begins with
\* the name of a target's host
AbsoluteValues == {
    <<"h", "t", "t", "p", "s", ":", "/", "/", "t", "/", "p", "?", "q">>,
    <<"H", "T", "T", "P", "S", ":", "/", "/", "t", "/", "p">>,
    <<"h", "t", "t", "p", "s", ":", "/", "/", "w", "/", "p">>,
    <<"h", "t", "t", "p", "s", ":", "/", "/", "x", "/", "p">>,
    <<"h", "t", "t", "p", "s", ":", "/", "/", "t", "t", "/", "p">>
}

\* references without a scheme: root-relative, protocol-relative, and
\* three forms relative to the document
RelativeValues == {
    <<"/", "i">>,
    <<"/", "/", "c", "/", "l">>,
    <<".", "/", "i">>,
    <<".", ".", "/", "x">>,
    <<"m">>
}

AttributeValues == AbsoluteValues \cup RelativeValues

\* the values that <img src> and <meta content> are drawn with
SrcValues == {
    <<"h", "t", "t", "p", "s", ":", "/", "/", "t", "t", "/", "p">>,
    <<"/", "i">>,
    <<"/", "/", "c", "/", "l">>
}

ContentValues == {
    <<"h", "t", "t", "p", "s", ":", "/", "/", "t", "/", "p", "?", "q">>,
    <<"h", "t", "t", "p", "s", ":", "/", "/", "t", "t", "/", "p">>,
    <<"/", "i">>
}

\* <a href>, <img src>, <meta content>
Elements ==
    { Element("a", v, <<>>, <<>>) : v \in AttributeValues }
    \cup { Element("img", <<>>, v, <<>>) : v \in SrcValues }
    \cup { Element("meta", <<>>, <<>>, v) : v \in ContentValues }

\* the sequences of at most n elements
RECURSIVE ElementSeqs(_)
ElementSeqs(n) ==
    IF n = 0 THEN {<<>>}
    ELSE LET shorter == ElementSeqs(n - 1)
         IN  shorter \cup { Append(c, e) : c \in { x \in shorter : Len(x) = n - 1 },
                                         e \in Elements }

Documents == [head : BOOLEAN, children : ElementSeqs(MaxElements)]

HtmlPaths == {
    <<"/", "a">>,
    <<"/", "a", "a", "/", "p">>,
    <<"/", "a", "/", "p", ".", "h", "t", "m", "l">>
}

HtmlRequests == { PlainRequest(p) : p \in HtmlPaths }

HtmlEnvs == [ROUTES : ProxyConfigs, CACHE_IMAGES : {CacheImagesAbsent}]

HtmlResponses ==
    { [status |-> l.status, statusText |-> l.statusText,
       cacheControl |-> NoHeader, contentType |-> t, body |-> d] :
        l \in StatusLines,
        t \in {Header(MixedCaseHtml), Header(ImagePng)},
        d \in Documents }

\* -------------------------------------------------------------------- state

VARIABLES
    pc,         \* "idle", "fetching" (suspended at await fetch), "done"
    request,    \* the inbound request
    env,        \* the environment of the deployment, passed to the handler
    routes,     \* the table getRoutes(env) gave the handler
    match,      \* the value of computeRedirectTarget(url, routes)
    routePath,  \* the route key looked up for the proxy path
    outbound,   \* the outbound calls issued so far, in order
    fetched,    \* how the outbound call settled: "none", "threw", "responded"
    response,   \* the origin's response, once the call has resolved
    result,     \* what handleRequest returned
    suspended,  \* the locals of the invocations that are not running
    served      \* what the entry point gave the runtime

vars ==
    <<pc, request, env, routes, match, routePath, outbound, fetched,
      response, result, suspended, served>>

NoBody == [text |-> "", arg |-> <<>>]

\* the body of a response that the router made itself
NoDocument == [head |-> FALSE, children |-> <<>>]

Pending ==
    [kind |-> "pending", status |-> 0, location |-> <<>>,
     body |-> NoBody, via |-> "none",
     cacheControl |-> NoHeader, contentType |-> NoHeader,
     statusText |-> "", document |-> NoDocument]

\* before the runtime has called the handler
NoRequest ==
    [origin |-> <<>>, pathname |-> <<>>, search |-> <<>>,
     method |-> "", body |-> "none", host |-> "absent",
     accept |-> "absent", loop |-> "absent"]

\* before the entry point has returned
NotServed == [kind |-> "pending", via |-> "none", status |-> 0]

\* before the outbound call has resolved
NoResponse ==
    [status |-> 0, statusText |-> "", cacheControl |-> NoHeader,
     contentType |-> NoHeader, body |-> EmptyDocument]

Init ==
    /\ pc = "idle"
    /\ request = NoRequest
    /\ env \in Envs
    /\ routes = <<>>
    /\ match = NoMatch
    /\ routePath = <<>>
    /\ outbound = <<>>
    /\ fetched = "none"
    /\ response = NoResponse
    /\ result = Pending
    /\ suspended = <<>>
    /\ served = NotServed

\* ---------------------------------------------------------------- responses

\* return null
NullResult ==
    [kind |-> "null", status |-> 0, location |-> <<>>,
     body |-> NoBody, via |-> "none",
     cacheControl |-> NoHeader, contentType |-> NoHeader,
     statusText |-> "", document |-> NoDocument]

RedirectPermanent(targetUrl) ==
    [kind |-> "response", status |-> 301, location |-> Href(targetUrl),
     body |-> NoBody, via |-> "router",
     cacheControl |-> NoHeader, contentType |-> NoHeader,
     statusText |-> "", document |-> NoDocument]

NotFoundResponse ==
    [kind |-> "response", status |-> 404, location |-> <<>>,
     body |-> NoBody, via |-> "router",
     cacheControl |-> NoHeader, contentType |-> NoHeader,
     statusText |-> "", document |-> NoDocument]

\* if (!match) return null
PassThrough == NullResult

\* Response.redirect(match.targetUrl.toString(), 302)
RedirectResponse(targetUrl) ==
    [kind |-> "response", status |-> 302, location |-> Href(targetUrl),
     body |-> NoBody, via |-> "router",
     cacheControl |-> NoHeader, contentType |-> NoHeader,
     statusText |-> "", document |-> NoDocument]

\* new Response("Routing loop detected", { status: 508 })
LoopResponse ==
    [kind |-> "response", status |-> 508, location |-> <<>>,
     body |-> [text |-> "Routing loop detected", arg |-> <<>>],
     via |-> "router",
     cacheControl |-> NoHeader, contentType |-> NoHeader,
     statusText |-> "", document |-> NoDocument]

BadGatewayNoOrigin(targetUrl) ==
    [kind |-> "response", status |-> 502, location |-> <<>>,
     body |-> [text |-> "Failed to connect to origin server: ", arg |-> <<>>],
     via |-> "router",
     cacheControl |-> NoHeader, contentType |-> NoHeader,
     statusText |-> "", document |-> NoDocument]

\* new Response(`Failed to connect to origin server: ${origin}`, 502)
BadGateway(targetUrl) ==
    [kind |-> "response", status |-> 502, location |-> <<>>,
     body |-> [text |-> "Failed to connect to origin server: ",
               arg |-> targetUrl.origin],
     via |-> "router",
     cacheControl |-> NoHeader, contentType |-> NoHeader,
     statusText |-> "", document |-> NoDocument]

Rethrow(message) ==
    [kind |-> "thrown", status |-> 0, location |-> <<>>,
     body |-> [text |-> "", arg |-> <<message>>], via |-> "none",
     cacheControl |-> NoHeader, contentType |-> NoHeader,
     statusText |-> "", document |-> NoDocument]

\* the top-level catch: new Response(`Error: ${error.message}`, 500)
InternalError(message) ==
    [kind |-> "response", status |-> 500, location |-> <<>>,
     body |-> [text |-> "Error: ", arg |-> <<message>>], via |-> "router",
     cacheControl |-> NoHeader, contentType |-> NoHeader,
     statusText |-> "", document |-> NoDocument]

ProxiedResponseDefaultStatus(resp, cacheControl, document) ==
    [kind |-> "response", status |-> 200, location |-> <<>>,
     body |-> [text |-> "document", arg |-> <<>>], via |-> "origin",
     cacheControl |-> cacheControl, contentType |-> resp.contentType,
     statusText |-> "", document |-> document]

\* new Response(response.body, { status, statusText, headers: newHeaders }),
\* transformed or not: its body is the document
ProxiedResponse(resp, cacheControl, document) ==
    [kind |-> "response", status |-> resp.status, location |-> <<>>,
     body |-> [text |-> "document", arg |-> <<>>], via |-> "origin",
     cacheControl |-> cacheControl, contentType |-> resp.contentType,
     statusText |-> resp.statusText, document |-> document]

\* the message of the TypeError of the URL constructor
InvalidURLMessage == "Invalid URL"

\* ------------------------------------------------------------ handleRequest

\* Object.entries(routes).find(([path]) => url.pathname.startsWith(
\* pathPattern))?.[0] || ""
LookupRoutePath(table, pathname) ==
    LET hits == { i \in 1..Len(table) :
                    StartsWith(pathname,
                               IF EndsWith(table[i].path, Wildcard)
                                   THEN SliceEnd(table[i].path, 2)
                                   ELSE table[i].path) }
    IN  IF hits = {} THEN <<>> ELSE table[Min(hits)].path

LoopNeverDetected(req) == FALSE

\* request.headers.get("X-Routing-Loop-Detection") === the marker
LoopDetected(req) == req.loop = LoopMarker

ModifiedRequestKeepHost(req, targetUrl) ==
    [url |-> Href(targetUrl), method |-> req.method, body |-> req.body,
     host |-> req.host, accept |-> req.accept, loop |-> LoopMarker]

\* new Request(match.targetUrl.toString(), { method, headers, body }) with
\* the host header deleted and the loop marker set
ModifiedRequest(req, targetUrl) ==
    [url |-> Href(targetUrl), method |-> req.method, body |-> req.body,
     host |-> "absent", accept |-> req.accept, loop |-> LoopMarker]

fetchWithRetry(calls, modifiedRequest) ==
    Append(Append(calls, modifiedRequest), modifiedRequest)

\* fetch(modifiedRequest): one more outbound call
fetch(calls, modifiedRequest) == Append(calls, modifiedRequest)

HandleRequestLoopFirst(req) ==
    /\ pc = "idle"
    /\ request' = req
    /\ LET url == [ok |-> TRUE, origin |-> req.origin,
                   pathname |-> req.pathname, search |-> req.search]
           table == getRoutes(env)
           m == computeRedirectTarget(url, table)
       IN  /\ routes' = table
           /\ match' = m
           /\ IF LoopDetected(req) THEN
                  /\ result' = LoopResponse
                  /\ pc' = "done"
                  /\ UNCHANGED <<routePath, outbound>>
              ELSE IF m.outcome = "throw" THEN
                  /\ result' = InternalError(InvalidURLMessage)
                  /\ pc' = "done"
                  /\ UNCHANGED <<routePath, outbound>>
              ELSE IF m.outcome = "null" THEN
                  /\ result' = PassThrough
                  /\ pc' = "done"
                  /\ UNCHANGED <<routePath, outbound>>
              ELSE IF m.type = "redirect" THEN
                  /\ result' = RedirectResponse(m.targetUrl)
                  /\ pc' = "done"
                  /\ UNCHANGED <<routePath, outbound>>
              ELSE
                  /\ routePath' = LookupRoutePath(table, url.pathname)
                  /\ outbound' =
                         fetch(outbound, ModifiedRequest(req, m.targetUrl))
                  /\ pc' = "fetching"
                  /\ UNCHANGED result
    /\ UNCHANGED <<env, fetched, response, suspended, served>>

\* handleRequest(req, env) from its entry to its first return or to the
\* await of the outbound fetch
HandleRequest(req) ==
    /\ pc = "idle"
    /\ request' = req
    /\ LET url == [ok |-> TRUE, origin |-> req.origin,
                   pathname |-> req.pathname, search |-> req.search]
           table == getRoutes(env)
           m == computeRedirectTarget(url, table)
       IN  /\ routes' = table
           /\ match' = m
           /\ IF m.outcome = "throw" THEN
                  /\ result' = InternalError(InvalidURLMessage)
                  /\ pc' = "done"
                  /\ UNCHANGED <<routePath, outbound>>
              ELSE IF m.outcome = "null" THEN
                  /\ result' = PassThrough
                  /\ pc' = "done"
                  /\ UNCHANGED <<routePath, outbound>>
              ELSE IF m.type = "redirect" THEN
                  /\ result' = RedirectResponse(m.targetUrl)
                  /\ pc' = "done"
                  /\ UNCHANGED <<routePath, outbound>>
              ELSE
                  /\ routePath' = LookupRoutePath(table, url.pathname)
                  /\ IF LoopDetected(req) THEN
                         /\ result' = LoopResponse
                         /\ pc' = "done"
                         /\ UNCHANGED outbound
                     ELSE
                         /\ outbound' =
                                fetch(outbound,
                                      ModifiedRequest(req, m.targetUrl))
                         /\ pc' = "fetching"
                         /\ UNCHANGED result
    /\ UNCHANGED <<env, fetched, response, suspended, served>>

\* await fetch(modifiedRequest) rejects: the inner catch returns the 502
OriginThrows ==
    /\ pc = "fetching"
    /\ fetched' = "threw"
    /\ result' = BadGateway(match.targetUrl)
    /\ pc' = "done"
    /\ UNCHANGED <<request, env, routes, match, routePath, outbound, response,
                   suspended, served>>

\* await fetch(modifiedRequest) resolves: the Cache-Control policy is
\* applied, an HTML response is transformed, and the response built from
\* the origin's is returned
OriginResponds(resp) ==
    /\ pc = "fetching"
    /\ fetched' = "responded"
    /\ response' = resp
    /\ LET url == [ok |-> TRUE, origin |-> request.origin,
                   pathname |-> request.pathname, search |-> request.search]
           html == isHtml(resp.contentType, url.pathname)
           cacheImages == getCacheConfig(env, routePath)
           cacheControl == newHeaders(resp.cacheControl, url.pathname,
                                      html, cacheImages)
       IN  result' =
               ProxiedResponse(resp, cacheControl,
                               IF html
                                   THEN Transform(resp.body,
                                                  transformPath(routePath),
                                                  url, match.targetUrl)
                                   ELSE resp.body)
    /\ pc' = "done"
    /\ UNCHANGED <<request, env, routes, match, routePath, outbound,
                   suspended, served>>

OriginSettles ==
    \/ OriginThrows
    \/ \E resp \in OriginResponses : OriginResponds(resp)

Next ==
    \/ pc = "idle" /\ \E req \in Requests : HandleRequest(req)
    \/ OriginThrows
    \/ \E resp \in OriginResponses : OriginResponds(resp)

Spec == Init /\ [][Next]_vars

\* the outbound call settles: the origin answers or the call fails
FairSpec == Spec /\ WF_vars(OriginSettles)

\* the cache policy: proxied assets, every upstream header
CacheInit ==
    /\ pc = "idle"
    /\ request = NoRequest
    /\ env \in CacheEnvs
    /\ routes = <<>>
    /\ match = NoMatch
    /\ routePath = <<>>
    /\ outbound = <<>>
    /\ fetched = "none"
    /\ response = NoResponse
    /\ result = Pending
    /\ suspended = <<>>
    /\ served = NotServed

CacheNext ==
    \/ pc = "idle" /\ \E req \in CacheRequests : HandleRequest(req)
    \/ OriginThrows
    \/ \E resp \in CacheResponses : OriginResponds(resp)

CacheSpec == CacheInit /\ [][CacheNext]_vars

\* the HTML rewrite: proxied documents
HtmlInit ==
    /\ pc = "idle"
    /\ request = NoRequest
    /\ env \in HtmlEnvs
    /\ routes = <<>>
    /\ match = NoMatch
    /\ routePath = <<>>
    /\ outbound = <<>>
    /\ fetched = "none"
    /\ response = NoResponse
    /\ result = Pending
    /\ suspended = <<>>
    /\ served = NotServed

HtmlNext ==
    \/ pc = "idle" /\ \E req \in HtmlRequests : HandleRequest(req)
    \/ OriginThrows
    \/ \E resp \in HtmlResponses : OriginResponds(resp)

HtmlSpec == HtmlInit /\ [][HtmlNext]_vars

\* ------------------------------------------------- concurrent invocations

\* invocations of the handler in one isolate
MaxTasks == 3

\* the locals of the running invocation
Locals ==
    [pc |-> pc, request |-> request, routes |-> routes, match |-> match,
     routePath |-> routePath, outbound |-> outbound, fetched |-> fetched,
     response |-> response, result |-> result]

\* the locals of an invocation that has not been called yet
FreshLocals ==
    [pc |-> "idle", request |-> NoRequest, routes |-> <<>>, match |-> NoMatch,
     routePath |-> <<>>, outbound |-> <<>>, fetched |-> "none",
     response |-> NoResponse, result |-> Pending]

RestoredSharingMatch(saved) == [saved EXCEPT !.match = match]

\* the locals an invocation finds when it is resumed: its own
Restored(saved) == saved

\* the event loop leaves the running invocation where it is suspended (not
\* yet called, awaiting the outbound call, between two elements of the
\* streamed body, or returned) and runs the i-th of the others
Resume(i) ==
    /\ i \in 1..Len(suspended)
    /\ suspended' = [suspended EXCEPT ![i] = Locals]
    /\ LET mine == Restored(suspended[i])
       IN  /\ pc' = mine.pc
           /\ request' = mine.request
           /\ routes' = mine.routes
           /\ match' = mine.match
           /\ routePath' = mine.routePath
           /\ outbound' = mine.outbound
           /\ fetched' = mine.fetched
           /\ response' = mine.response
           /\ result' = mine.result
    /\ UNCHANGED <<env, served>>

\* await fetch(modifiedRequest) resolves and the handler returns: the
\* response has its status and headers, and the rewriter has yet to see the
\* body; the head gets the base tag as it passes.  A response that is not
\* HTML, or has no elements, is complete.
OriginRespondsStreaming(resp) ==
    /\ pc = "fetching"
    /\ fetched' = "responded"
    /\ response' = resp
    /\ LET url == [ok |-> TRUE, origin |-> request.origin,
                   pathname |-> request.pathname, search |-> request.search]
           html == isHtml(resp.contentType, url.pathname)
           cacheImages == getCacheConfig(env, routePath)
           cacheControl == newHeaders(resp.cacheControl, url.pathname,
                                      html, cacheImages)
           opened == [head |-> resp.body.head,
                      children |-> IF resp.body.head
                                       THEN <<BaseTag(transformPath(routePath))>>
                                       ELSE <<>>]
       IN  /\ result' = ProxiedResponse(resp, cacheControl,
                                        IF html THEN opened ELSE resp.body)
           /\ pc' = IF html /\ resp.body.children # <<>>
                        THEN "streaming" ELSE "done"
    /\ UNCHANGED <<request, env, routes, match, routePath, outbound,
                   suspended, served>>

\* the next element of the body passes through AttributeRewriter.element
StreamElement ==
    /\ pc = "streaming"
    /\ LET url == [ok |-> TRUE, origin |-> request.origin,
                   pathname |-> request.pathname, search |-> request.search]
           shift == IF response.body.head THEN 1 ELSE 0
           seen == Len(result.document.children) - shift
           el == response.body.children[seen + 1]
       IN  /\ result' =
                 [result EXCEPT !.document.children =
                     Append(@, AttributeRewriter(el, transformPath(routePath),
                                                 url, match.targetUrl))]
           /\ pc' = IF seen + 1 = Len(response.body.children)
                        THEN "done" ELSE "streaming"
    /\ UNCHANGED <<request, env, routes, match, routePath, outbound, fetched,
                   response, suspended, served>>

\* the deployments, requests and answers of the concurrent invocations
ConcEnvs ==
    { [ROUTES |-> [parses |-> TRUE, entries |-> t],
       CACHE_IMAGES |-> CacheImagesAbsent] :
        t \in { t \in TablesOf(ProxyEntries, 2) :
                  t[1].path = <<"/", "a">> \o Wildcard } }

ConcRequests ==
    { PlainRequest(<<"/", "a", "/", "p">>),
      PlainRequest(<<"/", "a", "a", "/", "p">>) }

LinkedDocument ==
    [head |-> TRUE,
     children |-> << Element("a", <<"/", "i">>, <<>>, <<>>),
                     Element("img", <<>>,
                             HttpsScheme \o <<"t", "/", "p">>, <<>>) >>]

ConcResponses ==
    { [status |-> 200, statusText |-> "OK", cacheControl |-> NoHeader,
       contentType |-> Header(MixedCaseHtml), body |-> LinkedDocument],
      [status |-> 404, statusText |-> "Not Found", cacheControl |-> NoHeader,
       contentType |-> Header(ImagePng), body |-> LinkedDocument] }

ConcInit ==
    /\ pc = "idle"
    /\ request = NoRequest
    /\ env \in ConcEnvs
    /\ routes = <<>>
    /\ match = NoMatch
    /\ routePath = <<>>
    /\ outbound = <<>>
    /\ fetched = "none"
    /\ response = NoResponse
    /\ result = Pending
    /\ suspended = [i \in 1..(MaxTasks - 1) |-> FreshLocals]
    /\ served = NotServed

ConcNext ==
    \/ pc = "idle" /\ \E req \in ConcRequests : HandleRequest(req)
    \/ OriginThrows
    \/ \E resp \in ConcResponses : OriginRespondsStreaming(resp)
    \/ StreamElement
    \/ \E i \in 1..(MaxTasks - 1) : Resume(i)

ConcSpec == ConcInit /\ [][ConcNext]_vars

\* ------------------------------------------------------- the entry points

\* createRouter(routes): the handler is called with
\* { ...env, ROUTES: JSON.stringify(routes) }
createRouter(routerOptions, e) ==
    [e EXCEPT !.ROUTES = [parses |-> TRUE, entries |-> routerOptions]]

\* the environments the handler gets: the deployment's, from the default
\* export, and the overridden one, from the handler of createRouter
EntryEnvs ==
    Envs \cup { createRouter(t, e) :
                  t \in UNION { Tables(n) : n \in 0..MaxRoutes }, e \in Envs }

\* return response, when handleRequest gave one
EntryReturns ==
    /\ pc = "done"
    /\ served.kind = "pending"
    /\ result.kind = "response"
    /\ served' = [kind |-> "response", via |-> "handler",
                  status |-> result.status]
    /\ UNCHANGED <<pc, request, env, routes, match, routePath, outbound,
                   fetched, response, result, suspended>>

\* response || (await fetch(request)): handleRequest gave null and the
\* entry point fetches the original request
EntryPassesThrough ==
    /\ pc = "done"
    /\ served.kind = "pending"
    /\ result.kind = "null"
    /\ served' = [kind |-> "awaiting", via |-> "passthrough", status |-> 0]
    /\ UNCHANGED <<pc, request, env, routes, match, routePath, outbound,
                   fetched, response, result, suspended>>

\* the pass-through fetch resolves: its response is returned
PassThroughResponds(status) ==
    /\ served.kind = "awaiting"
    /\ served' = [kind |-> "response", via |-> "passthrough",
                  status |-> status]
    /\ UNCHANGED <<pc, request, env, routes, match, routePath, outbound,
                   fetched, response, result, suspended>>

\* the pass-through fetch rejects: nothing catches it, and the promise of
\* the entry point rejects
PassThroughThrows ==
    /\ served.kind = "awaiting"
    /\ served' = [kind |-> "fault", via |-> "passthrough", status |-> 0]
    /\ UNCHANGED <<pc, request, env, routes, match, routePath, outbound,
                   fetched, response, result, suspended>>

EntryInit ==
    /\ pc = "idle"
    /\ request = NoRequest
    /\ env \in EntryEnvs
    /\ routes = <<>>
    /\ match = NoMatch
    /\ routePath = <<>>
    /\ outbound = <<>>
    /\ fetched = "none"
    /\ response = NoResponse
    /\ result = Pending
    /\ suspended = <<>>
    /\ served = NotServed

EntryNext ==
    \/ pc = "idle" /\ \E req \in Requests : HandleRequest(req)
    \/ OriginThrows
    \/ \E resp \in OriginResponses : OriginResponds(resp)
    \/ EntryReturns
    \/ EntryPassesThrough
    \/ \E l \in StatusLines : PassThroughResponds(l.status)
    \/ PassThroughThrows

EntrySpec == EntryInit /\ [][EntryNext]_vars

\* ------------------------------------------------------------------ claims

\* The matching rule as the specification words it, character by
\* character: a pattern "P/*" matches P, and every path that continues P
\* with a "/"; any other pattern matches itself alone.
IsWildcardPattern(pattern) ==
    /\ Len(pattern) >= 2
    /\ pattern[Len(pattern) - 1] = "/"
    /\ pattern[Len(pattern)] = "*"

PrefixOf(pattern) == [i \in 1..(Len(pattern) - 2) |-> pattern[i]]

SpecMatches(path, pattern) ==
    IF IsWildcardPattern(pattern)
        THEN LET P == PrefixOf(pattern)
             IN  \/ path = P
                 \/ /\ Len(path) > Len(P)
                    /\ \A i \in 1..Len(P) : path[i] = P[i]
                    /\ path[Len(P) + 1] = "/"
        ELSE path = pattern

\* the table the request is resolved against
Table == routes

\* the entries of the table that the specification's rule matches
SpecHits == { i \in 1..Len(Table) : SpecMatches(request.pathname, Table[i].path) }

\* the first of them, 0 when there is none
Resolving == IF SpecHits = {} THEN 0 ELSE Min(SpecHits)

RequestUrl ==
    [ok |-> TRUE, origin |-> request.origin,
     pathname |-> request.pathname, search |-> request.search]

C2_FirstMatchWins ==
    (pc \in {"fetching", "done"} /\ Cardinality(SpecHits) >= 2)
        => match = computeRedirectTarget(RequestUrl, <<Table[Resolving]>>)

\* C2 witness: two matching entries with different targets, resolved with
\* the first one's.
C2_Witness ==
    /\ pc = "done"
    /\ Cardinality(SpecHits) >= 2
    /\ match.outcome = "match"
    /\ \E j \in SpecHits :
          /\ j > Resolving
          /\ computeRedirectTarget(RequestUrl, <<Table[j]>>) # match

\* the target of an entry without its marker prefix
Stripped(target) == parseTargetUrl(target).url

\* the part of a serialised URL from its first "?" on, "" without one
QueryOf(href) ==
    IF \E i \in 1..Len(href) : href[i] = "?"
        THEN Slice(href, Min({ i \in 1..Len(href) : href[i] = "?" }) - 1)
        ELSE <<>>

\* the origin of a serialised https URL: the scheme and the host
OriginOfHref(href) ==
    SubSeq(href, 1, Len(HttpsScheme)
                      + RunLen(Slice(href, Len(HttpsScheme)), {"/", "?"}))

\* the remaining path R of a request for P + R under the pattern "P/*"
RemainingOf(path, pattern) ==
    LET P == PrefixOf(pattern)
    IN  IF path = P \/ path = P \o <<"/">> THEN <<"/">>
        ELSE [i \in 1..(Len(path) - Len(P)) |-> path[Len(P) + i]]

\* C3 (as stated, for the requests whose resolution does not throw): under
\* a wildcard route "P/*" with an https target "T/*", a request for P + R
\* resolves to T's origin, T's path when it is not the root, then R, then
\* the incoming query; bare P and P + "/" give T + "/".
C3_WildcardTarget ==
    (/\ pc \in {"fetching", "done"}
     /\ match.outcome = "match"
     /\ Resolving # 0
     /\ IsWildcardPattern(Table[Resolving].path)
     /\ EndsWith(Stripped(Table[Resolving].target), Wildcard)
     /\ StartsWith(Stripped(Table[Resolving].target), HttpsScheme))
        => LET T == NewURL(SliceEnd(Stripped(Table[Resolving].target), 2))
               R == RemainingOf(request.pathname, Table[Resolving].path)
           IN  Href(match.targetUrl) =
                   T.origin
                     \o (IF T.pathname = <<"/">> THEN <<>> ELSE T.pathname)
                     \o R \o request.search

\* C4: whenever the request resolves, the query of the resolved target URL,
\* of the Location of a redirect and of every outbound URL is the incoming
\* query, also when it is empty and the configured target has one.
C4_QueryPreserved ==
    /\ match.outcome = "match"
          => /\ match.targetUrl.search = request.search
             /\ QueryOf(Href(match.targetUrl)) = request.search
    /\ (result.kind = "response" /\ result.status = 302)
          => QueryOf(result.location) = request.search
    /\ \A i \in 1..Len(outbound) : QueryOf(outbound[i].url) = request.search

\* C4 witness: a request without a query resolved through an entry whose
\* configured target has a query.
C4_Witness ==
    /\ pc = "done"
    /\ match.outcome = "match"
    /\ request.search = <<>>
    /\ Resolving # 0
    /\ QueryOf(Stripped(Table[Resolving].target)) # <<>>

\* C5 (as stated, read leniently: the bare prefix of a wildcard pattern
\* counts as the pattern): a 302 is produced only for a path that equals
\* the pattern of the entry that produced it, never for a subpath of it.
C5_RedirectExactOnly ==
    (pc = "done" /\ result.kind = "response" /\ result.status = 302)
        => /\ Resolving # 0
           /\ \/ Table[Resolving].path = request.pathname
              \/ /\ IsWildcardPattern(Table[Resolving].path)
                 /\ request.pathname \in
                        { PrefixOf(Table[Resolving].path),
                          PrefixOf(Table[Resolving].path) \o <<"/">> }

\* C6: a request that resolves through an entry without the proxy marker
\* gets a 302 whose Location is the resolved target with the incoming
\* query, without a body, and no outbound call is made for it.
C6_RedirectOutcome ==
    (/\ pc \in {"fetching", "done"}
     /\ match.outcome = "match"
     /\ Resolving # 0
     /\ ~StartsWith(Table[Resolving].target, ProxyPrefix))
        => /\ pc = "done"
           /\ result.kind = "response"
           /\ result.status = 302
           /\ result.location = Href(match.targetUrl)
           /\ QueryOf(result.location) = request.search
           /\ result.body = NoBody
           /\ outbound = <<>>
           /\ fetched = "none"

\* C6 witness: a redirect issued for a request that has a query.
C6_Witness ==
    /\ pc = "done"
    /\ match.outcome = "match"
    /\ match.type = "redirect"
    /\ result.status = 302
    /\ request.search # <<>>

\* C7: a request that no entry of the table matches is answered with null:
\* no response is built and no outbound call is made, whatever the method.
C7_PassThrough ==
    (pc \in {"fetching", "done"} /\ Resolving = 0)
        => /\ pc = "done"
           /\ result = NullResult
           /\ outbound = <<>>
           /\ fetched = "none"

\* C7 witness: a POST for an unmatched path under a table that has entries.
C7_Witness ==
    /\ pc = "done"
    /\ result.kind = "null"
    /\ Len(Table) > 0
    /\ request.method = "POST"

\* C8: a request that resolves to a Proxy match and carries the loop marker
\* gets the fixed 508 and no outbound call is ever issued for it.
C8_LoopGuard ==
    (/\ match.outcome = "match"
     /\ match.type = "proxy"
     /\ request.loop = LoopMarker)
        => /\ pc = "done"
           /\ result.kind = "response"
           /\ result.status = 508
           /\ result.body = [text |-> "Routing loop detected", arg |-> <<>>]
           /\ outbound = <<>>
           /\ fetched = "none"

\* C8 witness: a Proxy match with the marker, answered.
C8_Witness ==
    /\ pc = "done"
    /\ match.outcome = "match"
    /\ match.type = "proxy"
    /\ request.loop = LoopMarker
    /\ result.status = 508

\* C9: when the outbound call throws, the result is a 502 whose body names
\* the origin of the URL the call was addressed to; it is neither a 500 nor
\* a thrown failure.
C9_OriginUnreachable ==
    fetched = "threw"
        => /\ pc = "done"
           /\ Len(outbound) = 1
           /\ result.kind = "response"
           /\ result.status = 502
           /\ result.body =
                  [text |-> "Failed to connect to origin server: ",
                   arg |-> OriginOfHref(outbound[1].url)]

\* C9 witness: the outbound call threw.
C9_Witness ==
    /\ pc = "done"
    /\ fetched = "threw"
    /\ result.status = 502

\* the six outcomes of handleRequest
OutcomeClasses ==
    { c \in {"null", "302", "proxied", "502", "508", "500"} :
        \/ c = "null" /\ result.kind = "null"
        \/ c = "proxied" /\ result.kind = "response" /\ result.via = "origin"
        \/ /\ result.kind = "response"
           /\ result.via = "router"
           /\ \/ c = "302" /\ result.status = 302
              \/ c = "502" /\ result.status = 502
              \/ c = "508" /\ result.status = 508
              \/ c = "500" /\ result.status = 500 }

C10_Outcome ==
    /\ result.kind # "thrown"
    /\ pc # "done" => result = Pending
    /\ pc \in {"idle", "fetching", "done"}
    /\ pc = "done" => Cardinality(OutcomeClasses) = 1
    /\ (pc \in {"fetching", "done"} /\ match.outcome = "throw")
          => /\ pc = "done"
             /\ OutcomeClasses = {"500"}
             /\ result.body = [text |-> "Error: ", arg |-> <<InvalidURLMessage>>]

\* C10: every invocation ends, with exactly one of null, 302, proxied
\* response, 502, 508 or 500; nothing is thrown, and a failure of the
\* resolution ends as the 500 whose body is "Error: " and its message.
C10_OneOutcome == [](C10_Outcome) /\ (pc = "fetching" ~> pc = "done")

\* C10 witness: an invocation whose resolution failed, ended.
C10_Witness ==
    /\ pc = "done"
    /\ match.outcome = "throw"
    /\ result.status = 500

\* C11: in every execution the outbound call is made at most once, and only
\* for a request that resolved to a Proxy match and did not carry the loop
\* marker; the null, redirect, loop and 500 paths issue none, and a failed
\* call is not repeated.
C11_NoRetry ==
    /\ Len(outbound) <= 1
    /\ Len(outbound) = 1
          => /\ match.outcome = "match"
             /\ match.type = "proxy"
             /\ request.loop # LoopMarker
    /\ (pc = "done" /\ result.kind = "null") => outbound = <<>>
    /\ (pc = "done" /\ result.kind = "response"
          /\ result.status \in {302, 508, 500} /\ result.via = "router")
          => outbound = <<>>
    /\ fetched \in {"threw", "responded"} => Len(outbound) = 1

\* C11 witness: the one outbound call failed and the invocation ended with
\* that one call on record.
C11_Witness ==
    /\ pc = "done"
    /\ fetched = "threw"
    /\ Len(outbound) = 1

\* an entry that the specification's validation rejects: a key that does
\* not start with "/", or a target that, without its marker prefix and its
\* trailing wildcard, is no absolute URL
SpecEntryBad(e) ==
    \/ Len(e.path) = 0
    \/ e.path[1] # "/"
    \/ LET t == Stripped(e.target)
       IN  ~NewURL(IF IsWildcardPattern(t) THEN PrefixOf(t) ELSE t).ok

\* the configuration fails open
ConfigBad ==
    \/ ~env.ROUTES.parses
    \/ \E i \in 1..Len(env.ROUTES.entries) : SpecEntryBad(env.ROUTES.entries[i])

\* C12: when the ROUTES text does not parse, or one entry has a key without
\* the leading "/" or a target that is no absolute URL, the table of the
\* request is empty and the request is answered with null, also when a
\* well-formed entry of the same configuration matches its path.
C12_FailOpen ==
    (pc \in {"fetching", "done"} /\ ConfigBad)
        => /\ routes = <<>>
           /\ pc = "done"
           /\ result = NullResult
           /\ outbound = <<>>

\* C12 witness: a configuration with a rejected entry and a well-formed
\* entry that matches the request path; the request got null.
C12_Witness ==
    /\ pc = "done"
    /\ result = NullResult
    /\ env.ROUTES.parses
    /\ \E i, j \in 1..Len(env.ROUTES.entries) :
          /\ SpecEntryBad(env.ROUTES.entries[i])
          /\ ~SpecEntryBad(env.ROUTES.entries[j])
          /\ SpecMatches(request.pathname, env.ROUTES.entries[j].path)

\* C13: every outbound request is addressed to the resolved target URL,
\* carries the loop marker, has no Host header, and has the method, the body
\* and the other headers of the inbound request.
C13_OutboundShape ==
    \A i \in 1..Len(outbound) :
        /\ outbound[i].url = Href(match.targetUrl)
        /\ outbound[i].loop = LoopMarker
        /\ outbound[i].host = "absent"
        /\ outbound[i].method = request.method
        /\ outbound[i].body = request.body
        /\ outbound[i].accept = request.accept

\* C13 witness: a POST with a body, a Host header, another header and a
\* loop header of another value was forwarded.
C13_Witness ==
    /\ Len(outbound) = 1
    /\ request.method = "POST"
    /\ request.body = "payload"
    /\ request.host # "absent"
    /\ request.accept # "absent"
    /\ request.loop = "other"

\* ---- the cache policy, as the specification words it

\* the run of letters and digits that ends s
TrailingAlnum(s) ==
    LET others == { i \in 1..Len(s) : LowerChar(s[i]) \notin AlnumChars }
    IN  IF others = {} THEN Len(s)
        ELSE Len(s) - (CHOOSE i \in others : \A j \in others : j <= i)

\* the path ends in a file name with a content hash: a "." or "-", then at
\* least 8 letters or digits, then ".js" or ".css" (compared without regard
\* to case)
SpecHashed(path) ==
    \E ext \in {JsExt, CssExt} :
        /\ Len(path) > Len(ext)
        /\ \A k \in 1..Len(ext) :
              LowerChar(path[Len(path) - Len(ext) + k]) = ext[k]
        /\ LET stem == [i \in 1..(Len(path) - Len(ext)) |-> path[i]]
               run == TrailingAlnum(stem)
           IN  /\ run >= 8
               /\ run < Len(stem)
               /\ stem[Len(stem) - run] \in {".", "-"}

\* the path ends in ".js" or ".css"
SpecScriptOrStyle(path) ==
    \E ext \in {JsExt, CssExt} :
        /\ Len(path) >= Len(ext)
        /\ \A k \in 1..Len(ext) :
              LowerChar(path[Len(path) - Len(ext) + k]) = ext[k]

\* the upstream Cache-Control is present and restrictive
SpecRestrictive(h) ==
    /\ h.has
    /\ \E d \in {MaxAge0, NoCacheDirective, NoStoreDirective, MustRevalidate} :
          \E i \in 1..Len(h.value) :
              /\ i + Len(d) - 1 <= Len(h.value)
              /\ \A k \in 1..Len(d) : h.value[i + k - 1] = d[k]

\* the origin answered and handleRequest returned the proxied response
Proxied == pc = "done" /\ fetched = "responded"

SpecImage(path) ==
    \E ext \in imageExtensions :
        /\ Len(path) >= Len(ext)
        /\ \A k \in 1..Len(ext) :
              LowerChar(path[Len(path) - Len(ext) + k]) = ext[k]

\* C15: an upstream Cache-Control that is not restrictive is passed on as
\* it is, for every path, content type and CACHE_IMAGES; a restrictive one
\* is replaced only by the value of the hashed-asset rule (on a hashed
\* path) or of the image rule (on an image path).
C15_UpstreamRespected ==
    (Proxied /\ response.cacheControl.has) =>
        /\ ~SpecRestrictive(response.cacheControl)
              => result.cacheControl = response.cacheControl
        /\ result.cacheControl # response.cacheControl
              => \/ /\ result.cacheControl = Header(Immutable)
                    /\ SpecHashed(request.pathname)
                 \/ /\ result.cacheControl = Header(WeekLong)
                    /\ SpecImage(request.pathname)

\* C15 witness: a permissive upstream header on a hashed asset, passed on.
C15_Witness ==
    /\ Proxied
    /\ response.cacheControl.has
    /\ response.cacheControl.value # <<>>
    /\ ~SpecRestrictive(response.cacheControl)
    /\ SpecHashed(request.pathname)
    /\ result.cacheControl = response.cacheControl

\* the response is HTML: by its content type, or by the path's ".html"
SpecHtml ==
    LET ct == IF response.contentType.has
                  THEN ToLowerCase(response.contentType.value) ELSE <<>>
    IN  \/ Occurrences(ct, TextHtml) # {}
        \/ Occurrences(ct, Xhtml) # {}
        \/ /\ Len(request.pathname) >= Len(HtmlExt)
           /\ \A k \in 1..Len(HtmlExt) :
                 LowerChar(request.pathname[Len(request.pathname)
                                              - Len(HtmlExt) + k]) = HtmlExt[k]

\* C16: without an upstream Cache-Control the result carries "no-cache"
\* when the response is HTML and "public, max-age=31536000" otherwise;
\* every proxied response carries a Cache-Control header.
C16_DefaultCache ==
    Proxied =>
        /\ result.cacheControl.has
        /\ ~response.cacheControl.has
              => result.cacheControl =
                     IF SpecHtml THEN Header(NoCacheDirective)
                                 ELSE Header(YearLong)

\* C16 witness: a path that ends in ".html", a content type that is not
\* HTML, no upstream header, and "no-cache" on the result.
C16_Witness ==
    /\ Proxied
    /\ ~response.cacheControl.has
    /\ response.contentType.has
    /\ Occurrences(ToLowerCase(response.contentType.value), TextHtml) = {}
    /\ EndsWith(request.pathname, HtmlExt)
    /\ result.cacheControl = Header(NoCacheDirective)

\* image caching is enabled for the request: CACHE_IMAGES is the text of
\* true, or of a list that holds the pattern of the entry that matched
SpecImageCaching ==
    \/ env.CACHE_IMAGES.kind = "boolean" /\ env.CACHE_IMAGES.flag
    \/ /\ env.CACHE_IMAGES.kind = "array"
       /\ Resolving # 0
       /\ \E i \in 1..Len(env.CACHE_IMAGES.items) :
             env.CACHE_IMAGES.items[i] = Table[Resolving].path

\* what the hashed-asset rule, the upstream header and the default rule
\* give when the image rule does not apply
WithoutImageRule ==
    IF SpecHashed(request.pathname) /\ SpecRestrictive(response.cacheControl)
        THEN Header(Immutable)
    ELSE IF response.cacheControl.has THEN response.cacheControl
    ELSE IF SpecHtml THEN Header(NoCacheDirective)
    ELSE Header(YearLong)

\* C17 (as stated): an image path, image caching enabled for the matched
\* route and a restrictive upstream header give "public, max-age=604800";
\* when one of the three fails, the other rules decide.
C17_ImageRule ==
    Proxied =>
        result.cacheControl =
            IF /\ SpecImage(request.pathname)
               /\ SpecImageCaching
               /\ SpecRestrictive(response.cacheControl)
                THEN Header(WeekLong)
                ELSE WithoutImageRule

\* C18 (as stated): a request matched by an entry whose pattern is not in
\* the list of CACHE_IMAGES never gets the image override, whatever the
\* other entries of the table and their order; neither does any request
\* when CACHE_IMAGES is absent or does not parse.
C18_ImageCachingKeyed ==
    (/\ Proxied
     /\ Resolving # 0
     /\ \/ env.CACHE_IMAGES.kind \in {"absent", "empty", "invalid"}
        \/ /\ env.CACHE_IMAGES.kind = "array"
           /\ \A i \in 1..Len(env.CACHE_IMAGES.items) :
                 env.CACHE_IMAGES.items[i] # Table[Resolving].path)
        => result.cacheControl # Header(WeekLong)

\* ---- the HTML rewrite, as the specification words it

\* the base path B of the entry that matched the request: its pattern,
\* without the wildcard
SpecBasePath ==
    IF IsWildcardPattern(Table[Resolving].path)
        THEN PrefixOf(Table[Resolving].path)
        ELSE Table[Resolving].path

\* B followed by exactly one trailing slash
SpecBaseHref ==
    IF SpecBasePath # <<>> /\ SpecBasePath[Len(SpecBasePath)] = "/"
        THEN SpecBasePath
        ELSE SpecBasePath \o <<"/">>

\* C19 (as stated): the head of a proxied HTML document gets, as its first
\* child and before its original children, a base tag whose href is the
\* base path of the entry that matched the request, with one trailing
\* slash, for every table and every order of its entries.
C19_BaseTag ==
    (Proxied /\ Resolving # 0 /\ SpecHtml /\ response.body.head)
        => /\ result.document.head
           /\ Len(result.document.children) = Len(response.body.children) + 1
           /\ result.document.children[1].tag = "base"
           /\ result.document.children[1].href = SpecBaseHref
           /\ \A i \in 1..Len(response.body.children) :
                 result.document.children[i + 1].tag
                     = response.body.children[i].tag

\* the value parses as an absolute URL of the proxied target's origin
SelfReference(value) ==
    /\ value # <<>>
    /\ NewURL(value).ok
    /\ NewURL(value).origin = match.targetUrl.origin

\* the path, query and fragment of an absolute https URL, as written
AfterOrigin(value) ==
    LET rest == [i \in 1..(Len(value) - Len(HttpsScheme)) |->
                   value[Len(HttpsScheme) + i]]
        stops == { i \in 1..Len(rest) : rest[i] \in {"/", "?", "#"} }
    IN  IF stops = {} THEN <<>>
        ELSE [i \in 1..(Len(rest) - Min(stops) + 1) |-> rest[Min(stops) + i - 1]]

\* the source origin, the route base path, the value's path and query
SpecRewritten(value) == request.origin \o SpecBasePath \o AfterOrigin(value)

\* C20 (as stated): in a proxied HTML response every href, src and meta
\* content value that parses as an absolute URL of the proxied target's
\* origin becomes the source origin, the base path of the matched route,
\* and the value's path, query and fragment.
C20_SelfReference ==
    (Proxied /\ Resolving # 0 /\ SpecHtml)
        => LET before == response.body.children
               after == result.document.children
               shift == Len(after) - Len(before)
           IN  \A i \in 1..Len(before) :
                   /\ SelfReference(before[i].href)
                         => after[i + shift].href = SpecRewritten(before[i].href)
                   /\ SelfReference(before[i].src)
                         => after[i + shift].src = SpecRewritten(before[i].src)
                   /\ (before[i].tag = "meta" /\ SelfReference(before[i].content))
                         => after[i + shift].content
                                = SpecRewritten(before[i].content)

\* the value parses as an absolute URL of another origin than the proxied
\* target's
External(value) ==
    /\ value # <<>>
    /\ NewURL(value).ok
    /\ NewURL(value).origin # match.targetUrl.origin

\* C21 (as stated): in a proxied HTML response every href, src and meta
\* content value that parses as an absolute URL whose origin differs from
\* the proxied target's origin is left exactly as it was.
C21_ExternalUntouched ==
    (Proxied /\ Resolving # 0 /\ SpecHtml)
        => LET before == response.body.children
               after == result.document.children
               shift == Len(after) - Len(before)
           IN  \A i \in 1..Len(before) :
                   /\ External(before[i].href)
                         => after[i + shift].href = before[i].href
                   /\ External(before[i].src)
                         => after[i + shift].src = before[i].src
                   /\ (before[i].tag = "meta" /\ External(before[i].content))
                         => after[i + shift].content = before[i].content

\* the value does not parse as an absolute URL
Relative(value) == value # <<>> /\ ~NewURL(value).ok

\* a relative href or src, as the specification rewrites it
SpecPrefixed(value) ==
    IF value[1] = "/" THEN SpecBasePath \o value ELSE value

\* C22 (as stated): in a proxied HTML response an href or src value that
\* does not parse as an absolute URL is prefixed with the base path of the
\* matched route when it starts with "/" and is left unchanged otherwise;
\* a meta content value that does not parse as an absolute URL is left
\* unchanged.
C22_RelativeRewrite ==
    (Proxied /\ Resolving # 0 /\ SpecHtml)
        => LET before == response.body.children
               after == result.document.children
               shift == Len(after) - Len(before)
           IN  \A i \in 1..Len(before) :
                   /\ Relative(before[i].href)
                         => after[i + shift].href = SpecPrefixed(before[i].href)
                   /\ Relative(before[i].src)
                         => after[i + shift].src = SpecPrefixed(before[i].src)
                   /\ (before[i].tag = "meta" /\ Relative(before[i].content))
                         => after[i + shift].content = before[i].content

\* C23: for a Proxy match whose origin responded, the result has the
\* origin's status, status text and headers other than Cache-Control
\* (here the Content-Type); a response that is not classified HTML has the
\* origin's body unchanged, so the HTML transform acts on HTML only.
C23_ProxiedFrame ==
    (Proxied /\ Resolving # 0)
        => /\ result.kind = "response"
           /\ result.via = "origin"
           /\ result.status = response.status
           /\ result.statusText = response.statusText
           /\ result.contentType = response.contentType
           /\ ~SpecHtml => result.document = response.body

\* an answer 404 that is not HTML, whose document has a head and a
\* root-relative link, is returned as it came
C23_Witness ==
    /\ Proxied /\ Resolving # 0 /\ ~SpecHtml
    /\ response.status = 404
    /\ response.statusText = "Not Found"
    /\ response.contentType = Header(ImagePng)
    /\ response.body.head
    /\ Len(response.body.children) = 1
    /\ response.body.children[1].href = <<"/", "i">>
    /\ result.status = 404
    /\ result.document = response.body

\* the text of a target up to its query
WithoutQuery(target) == SubSeq(target, 1, RunLen(target, {"?"}))

\* the first entry of the configured table that the request matches
Configured == env.ROUTES.entries

ConfiguredHits ==
    { i \in 1..Len(Configured) :
        SpecMatches(request.pathname, Configured[i].path) }

\* C24: under an accepted configuration, a request whose first matching
\* entry has a target without "/*" resolves to that target as configured,
\* with the incoming query in place of the target's, whatever follows the
\* prefix in the request path; a wildcard pattern with such a target is
\* accepted and matches like any other.
C24_FixedTarget ==
    (pc # "idle" /\ ~ConfigBad /\ ConfiguredHits # {})
        => LET e == Configured[Min(ConfiguredHits)]
           IN  ~Includes(Stripped(e.target), Wildcard)
                  => /\ routes = Configured
                     /\ match.outcome = "match"
                     /\ Href(match.targetUrl)
                           = WithoutQuery(Stripped(e.target)) \o request.search

\* C24 witness: a request for a path two segments below the prefix of a
\* wildcard pattern whose target has no wildcard
C24_Witness ==
    /\ pc = "done"
    /\ ~ConfigBad
    /\ ConfiguredHits # {}
    /\ LET e == Configured[Min(ConfiguredHits)]
       IN  /\ IsWildcardPattern(e.path)
           /\ ~Includes(Stripped(e.target), Wildcard)
           /\ Len(request.pathname) > Len(PrefixOf(e.path)) + 1
           /\ request.search # <<>>
           /\ match.outcome = "match"

\* the table with the target of its i-th entry replaced
Retargeted(i, target) == [routes EXCEPT ![i].target = target]

\* C25: the kind of a match is Proxy exactly when the raw target of the
\* matched entry starts with "proxy:", and Redirect otherwise; an entry
\* with the prefix "302:" resolves every request as the same entry without
\* the prefix does, and conversely, to the same target URL and the kind
\* Redirect, and both tables are accepted.
C25_EntryKind ==
    (pc # "idle" /\ Resolving # 0)
        => LET raw == Table[Resolving].target
               legacy == StartsWith(raw, LegacyPrefix)
               other == IF legacy THEN Slice(raw, Len(LegacyPrefix))
                                  ELSE LegacyPrefix \o raw
               twin == Retargeted(Resolving, other)
           IN  /\ match.outcome = "match"
                     => /\ match.type \in {"proxy", "redirect"}
                        /\ match.type = "proxy" <=> StartsWith(raw, ProxyPrefix)
               /\ (legacy \/ ~StartsWith(raw, ProxyPrefix))
                     => /\ computeRedirectTarget(RequestUrl, twin) = match
                        /\ validateRoutes(twin) = validateRoutes(routes)
                        /\ match.outcome = "match" => match.type = "redirect"

\* C25 witness: a request below the prefix of an entry with the prefix
\* "302:" was answered with a redirect
C25_Witness ==
    /\ pc = "done"
    /\ Resolving # 0
    /\ StartsWith(Table[Resolving].target, LegacyPrefix)
    /\ Len(request.pathname) > Len(PrefixOf(Table[Resolving].path))
    /\ match.outcome = "match"
    /\ match.type = "redirect"
    /\ result.status = 302

\* every invocation in the isolate: the running one and the others
Invocations == <<Locals>> \o suspended

\* the result of an invocation whose origin answered, when nothing else
\* runs between its steps
AloneDocument(task) ==
    LET url == [ok |-> TRUE, origin |-> task.request.origin,
                pathname |-> task.request.pathname,
                search |-> task.request.search]
    IN  IF isHtml(task.response.contentType, url.pathname)
            THEN Transform(task.response.body, transformPath(task.routePath),
                           url, task.match.targetUrl)
            ELSE task.response.body

\* C26: however the invocations of one isolate are interleaved at the
\* outbound call and between the elements of a streamed body, two
\* invocations with the same request and the same behaviour of the origin
\* have the same table, match and result, the streamed document is the one
\* the transform gives in one piece, and every invocation has the table
\* that getRoutes derives from the configuration.
C26_Independent ==
    /\ \A i \in 1..Len(Invocations) :
          LET a == Invocations[i]
          IN  /\ a.pc # "idle" => a.routes = getRoutes(env)
              /\ (a.pc = "done" /\ a.fetched = "responded")
                    => a.result.document = AloneDocument(a)
    /\ \A i, j \in 1..Len(Invocations) :
          LET a == Invocations[i]
              b == Invocations[j]
          IN  (/\ a.pc = "done" /\ b.pc = "done"
               /\ a.request = b.request
               /\ a.fetched = b.fetched
               /\ a.response = b.response)
                 => /\ a.routes = b.routes
                    /\ a.match = b.match
                    /\ a.routePath = b.routePath
                    /\ a.result = b.result

\* C26 witness: an invocation has returned its whole document while a
\* second one, called with another request, is suspended between two
\* elements of its body and a third awaits its origin
C26_Witness ==
    /\ pc = "done"
    /\ fetched = "responded"
    /\ result.document = AloneDocument(Locals)
    /\ result.document # response.body
    /\ \E i, j \in 1..Len(suspended) :
          /\ suspended[i].pc = "streaming"
          /\ suspended[i].request # request
          /\ suspended[i].match # match
          /\ suspended[j].pc = "fetching"

\* C27 (as stated): whatever the request, the configuration and the
\* network do, what an entry point gives the runtime is never a fault: on
\* the matched paths and on the pass-through path alike the promise of
\* fetch resolves to a response.
C27_AlwaysResponse == served.kind # "fault"

\* C28 (as stated): every outbound call of a request that matches a Proxy
\* entry goes to the origin of that entry's configured target, whatever the
\* request path is.
C28_OriginConfined ==
    (Resolving # 0 /\ StartsWith(Table[Resolving].target, ProxyPrefix))
        => \A i \in 1..Len(outbound) :
               OriginOfHref(outbound[i].url)
                   = OriginOfHref(Stripped(Table[Resolving].target))

\* C29: the 508 is given only to a request with the loop marker that
\* resolved to a Proxy match; a request that resolves through an entry
\* without the proxy marker gets the 302 for the target resolved from its
\* URL and the table alone, and a request that no entry matches gets null,
\* with the marker as without it; none of the three makes an outbound call.
C29_LoopCheckOrder ==
    pc \in {"fetching", "done"}
        => /\ (result.kind = "response" /\ result.status = 508)
                 => /\ request.loop = LoopMarker
                    /\ match.outcome = "match"
                    /\ match.type = "proxy"
                    /\ Resolving # 0
                    /\ StartsWith(Table[Resolving].target, ProxyPrefix)
                    /\ outbound = <<>>
           /\ (/\ Resolving # 0
               /\ ~StartsWith(Table[Resolving].target, ProxyPrefix)
               /\ match.outcome = "match")
                 => /\ match = computeRedirectTarget(RequestUrl, Table)
                    /\ result = RedirectResponse(match.targetUrl)
                    /\ outbound = <<>>
           /\ Resolving = 0
                 => /\ result = NullResult
                    /\ outbound = <<>>

\* C29 witness: a request with the loop marker, below the prefix of an
\* entry without the proxy marker, got the 302
C29_Witness ==
    /\ pc = "done"
    /\ request.loop = LoopMarker
    /\ Resolving # 0
    /\ ~StartsWith(Table[Resolving].target, ProxyPrefix)
    /\ result.kind = "response"
    /\ result.status = 302
    /\ result.location = Href(match.targetUrl)

\* a value of the form "//host/path" whose host is not the target's
ProtocolRelative(value) ==
    /\ StartsWith(value, <<"/", "/">>)
    /\ NewURLWithBase(value, request.origin).ok
    /\ NewURLWithBase(value, request.origin).origin # match.targetUrl.origin

\* the host and path that a value denotes in a page of the source origin
Denoted(value) ==
    LET u == IF NewURL(value).ok THEN NewURL(value)
             ELSE NewURLWithBase(value, request.origin)
    IN  [origin |-> u.origin, pathname |-> u.pathname]

\* C30 (as stated): in a proxied HTML response an href or src value that
\* is an absolute URL of another origin than the target's, or a
\* protocol-relative reference to another host, denotes the same host and
\* path after the rewrite as before it.
C30_NeverRetargeted ==
    (Proxied /\ Resolving # 0 /\ SpecHtml)
        => LET before == response.body.children
               after == result.document.children
               shift == Len(after) - Len(before)
           IN  \A i \in 1..Len(before) :
                   /\ (External(before[i].href) \/ ProtocolRelative(before[i].href))
                         => Denoted(after[i + shift].href)
                                = Denoted(before[i].href)
                   /\ (External(before[i].src) \/ ProtocolRelative(before[i].src))
                         => Denoted(after[i + shift].src)
                                = Denoted(before[i].src)

====
